---- MODULE Spec2Model ----
(***************************************************************************)
(* The SageMaker job scheduler of lambdascript/lambda_function.py: one     *)
(* pass of lambda_handler over the S3 request queue, the resource pool it  *)
(* reserves in, the dead letter queue, and the CodeBuild trigger.          *)
(* Every S3 call of the handler is one step, so that the states between    *)
(* two writes are states of the model.                                     *)
(***************************************************************************)
EXTENDS Integers, Sequences, FiniteSets, TLC

\* ------------------------------------------------------------------ bounds

\* Number of request tickets on the queue in the initial state.
MaxTickets == 2

\* How many times the clock may jump forward by ClockStep.
MaxClockJumps == 1

\* ------------------------------------------------------------ constants.py

TIMEOUT_LIMIT_SECONDS == 780
MAX_SCHEDULING_TRIES == 5
P3_8XLARGE_INFERENCE == 20
C4_4XLARGE_INFERENCE == 30
P2_8XLARGE_INFERENCE == 20
C4_8XLARGE_INFERENCE == 30
P3_8XLARGE_TRAINING == 40
C4_4XLARGE_TRAINING == 50
P2_8XLARGE_TRAINING == 40
C4_8XLARGE_TRAINING == 50

TRAINING_LIMIT ==
    ("ml.p2.8xlarge" :> P2_8XLARGE_TRAINING) @@ ("ml.c4.4xlarge" :> C4_4XLARGE_TRAINING) @@
    ("ml.c4.8xlarge" :> C4_8XLARGE_TRAINING) @@ ("ml.p3.8xlarge" :> P3_8XLARGE_TRAINING)

INFERENCE_LIMIT ==
    ("ml.p2.8xlarge" :> P2_8XLARGE_INFERENCE) @@ ("ml.c4.4xlarge" :> C4_4XLARGE_INFERENCE) @@
    ("ml.c4.8xlarge" :> C4_8XLARGE_INFERENCE) @@ ("ml.p3.8xlarge" :> P3_8XLARGE_INFERENCE)

\* constants.py with the retry maximum under the name update_ticket reads.
constants_with_retries ==
    [TIMEOUT_LIMIT_SECONDS |-> TIMEOUT_LIMIT_SECONDS,
     MAX_SCHEDULING_TRIES |-> MAX_SCHEDULING_TRIES,
     MAX_SCHEDULING_RETRIES |-> MAX_SCHEDULING_TRIES]

\* The namespace of the module constants: the names it defines, with their
\* values.  Reading any other name raises AttributeError.
constants ==
    [TIMEOUT_LIMIT_SECONDS |-> TIMEOUT_LIMIT_SECONDS,
     MAX_SCHEDULING_TRIES |-> MAX_SCHEDULING_TRIES]

\* ------------------------------------------------------------------ inputs

\* An image URI is modelled by the substrings the code looks for in it.
Image(tf, gpu, tr, inf) == [tensorflow |-> tf, gpu |-> gpu, training |-> tr, inference |-> inf]

\* pr-tensorflow-inference:...-gpu-... and pr-mxnet-inference:...-gpu-...
Images == {Image(TRUE, TRUE, FALSE, TRUE), Image(FALSE, TRUE, FALSE, TRUE)}

\* INSTANCES_NUM of a ticket.
Counts == {1, 2}

\* SCHEDULING_TRIES of the tickets placed on the queue.
InitTries == {MAX_SCHEDULING_TRIES - 1, MAX_SCHEDULING_TRIES}

\* TIMEOUT_LIMIT of the tickets placed on the queue (seconds).
Timeouts == {1, 14400}

\* Instances a resource class that earlier passes reserved in has left in the
\* initial state.
InitHeadroom == {2}

\* The clock reads StartNow when the first pass starts; the tickets were
\* placed at the seconds 1..MaxTickets before it.
StartNow == MaxTickets + 1
ClockStep == TIMEOUT_LIMIT_SECONDS
MaxNow == StartNow + MaxClockJumps * ClockStep

\* Scheduler invocations that may be alive.
Passes == {1, 2}

\* ------------------------------------------------------------- S3 objects

\* Body of an object written by put_object(Bucket, Key) with no Body.
EmptyBody == [EMPTY |-> TRUE]

\* request_tickets/{name}_{timestamp}.json
TicketKey(name, ts) == [name |-> name, ts |-> ts]

TicketBody(image, n, tries, ts, timeout) ==
    [ECR_URI |-> image, INSTANCES_NUM |-> n, SCHEDULING_TRIES |-> tries,
     TIMESTAMP |-> ts, TIMEOUT_LIMIT |-> timeout]

\* str(n) for n >= 0, as the sequence of its decimal digits.
RECURSIVE str(_)
str(n) == IF n < 10 THEN <<n>> ELSE str(n \div 10) \o <<n % 10>>

\* int(s) of a sequence of decimal digits.
RECURSIVE int(_)
int(s) == IF Len(s) = 1 THEN s[1] ELSE 10 * int(SubSeq(s, 1, Len(s) - 1)) + s[Len(s)]

\* ticket_key.split('/')[-1].split('.')[0]: the ticket's file name without
\* its extension (ticket names hold no '.').
Basename(ticket_key) == ticket_key

\* resource_pool/{instance_type}-{job_type}/{ticket name}#{num}-{status}.json
PoolKey(instance_type, job_type, name, num, status) ==
    [instance_type |-> instance_type, job_type |-> job_type, name |-> name,
     num |-> num, status |-> status]

\* dead_letter_queue/{ticket name}-{reason}.json
DeadLetterKey(name, reason) == [name |-> name, reason |-> reason]

VARIABLES
    request_tickets,    \* S3 request_tickets/: ticket key -> body
    resource_pool,      \* S3 resource_pool/: entry key -> body
    dead_letter_queue,  \* S3 dead_letter_queue/: record key -> body
    folders,            \* prefixes that hold a zero-byte folder object
    builds,             \* ticket keys for which start_build was accepted
    now,                \* datetime.now(), in seconds
    pc,                 \* per pass: where lambda_handler stands
    start_time,         \* per pass: start_time
    tickets_list,       \* per pass: tickets_list after the sort
    idx,                \* per pass: position of the for loop in tickets_list
    ticket_body,        \* per pass: ticket_body of the ticket being handled
    instances_in_use,   \* per pass: instances_in_use of that ticket
    todo,               \* per pass: S3 writes of the running call not yet made
    err                 \* per pass: the exception that ended the pass, and its line

store == <<request_tickets, resource_pool, dead_letter_queue, folders>>
locals == <<pc, start_time, tickets_list, idx, ticket_body, instances_in_use, todo, err>>
vars == <<request_tickets, resource_pool, dead_letter_queue, folders, builds, now,
          pc, start_time, tickets_list, idx, ticket_body, instances_in_use, todo, err>>

\* ---------------------------------------------------------- pure functions

assign_sagemaker_instance_type(image) ==
    IF image.tensorflow
    THEN (IF image.gpu THEN "ml.p3.8xlarge" ELSE "ml.c4.4xlarge")
    ELSE (IF image.gpu THEN "ml.p2.8xlarge" ELSE "ml.c4.8xlarge")

\* job_type of lambda_handler.
JobType(image) == IF image.training THEN "training" ELSE "inference"

\* The limit of the image's instance type, or the failure of the assertion
\* on the image URI.
check_sagemaker_instance_limit(image) ==
    IF ~(image.training \/ image.inference)
    THEN [raise |-> "AssertionError"]
    ELSE IF image.training
         THEN [value |-> TRAINING_LIMIT[assign_sagemaker_instance_type(image)]]
         ELSE [value |-> INFERENCE_LIMIT[assign_sagemaker_instance_type(image)]]

\* re.compile(".*\#(\d)-.*").match(key): group 1, or NoMatch when the key
\* does not hold '#', one digit and '-'.  The number stands between the '#'
\* and the '-' of the key, so the pattern matches when it has exactly one digit.
NoMatch == <<>>

re_match(key) == IF Len(key.num) = 1 THEN <<key.num[1]>> ELSE NoMatch

\* A reader that takes only the running entries into account.
CountsOnlyRunning(key) == key.status = "running"

\* entry["Key"].endswith("preparing.json") or ...endswith("running.json")
CountsAsInUse(key) == key.status \in {"preparing", "running"}

\* s3_client.list_objects(Prefix="resource_pool/{instance_type}-{job_type}/")
\* has "Contents" when an object lies under the prefix.
PoolEntries(pool, instance_type, job_type) ==
    {k \in DOMAIN pool : k.instance_type = instance_type /\ k.job_type = job_type}

\* The zero-byte object "{prefix}/" the S3 console writes for a folder.
PoolFolder(instance_type, job_type) == <<"resource_pool", instance_type, job_type>>

QueueFolder == <<"request_tickets", "", "">>

RECURSIVE SumOfMatches(_)
SumOfMatches(S) ==
    IF S = {} THEN 0
    ELSE LET k == CHOOSE x \in S : TRUE
         IN int(re_match(k)) + SumOfMatches(S \ {k})

\* The sum of the instances of the entries preparing or running, or the
\* exception the call raises.
get_num_instances_running(pool, fold, instance_type, job_type) ==
    LET entries == PoolEntries(pool, instance_type, job_type)
        counted == {k \in entries : CountsAsInUse(k)}
    IN  IF entries = {} /\ PoolFolder(instance_type, job_type) \notin fold
        THEN [raise |-> "KeyError", line |-> 94]
        ELSE IF \E k \in counted : re_match(k) = NoMatch
        THEN [raise |-> "AttributeError", line |-> 96]
        ELSE [value |-> SumOfMatches(counted)]

\* The comparison with <= in place of <.
EnoughResourcesUpToLimit(in_use, required, limit) == in_use + required <= limit

\* An admission test that leaves the request of the ticket out.
EnoughResourcesBeforeRequest(in_use, required, limit) == in_use < limit

\* if (instances_in_use + instances_required) < instances_limit
EnoughResources(in_use, required, limit) == in_use + required < limit

\* A handler that consults the retry maximum before the resources.
DecideRetriesFirst(body, in_use, limit) ==
    IF body.SCHEDULING_TRIES >= MAX_SCHEDULING_TRIES THEN "update_no_resources"
    ELSE IF EnoughResources(in_use, body.INSTANCES_NUM, limit)
    THEN "trigger" ELSE "update_no_resources"

\* Lines 254-266: the branch lambda_handler takes for a ticket.
Decide(body, in_use, limit) ==
    IF EnoughResources(in_use, body.INSTANCES_NUM, limit)
    THEN "trigger" ELSE "update_no_resources"

\* ticket_timestamp_cmp_function returns a bool; cmp_to_key reads it as a number.
ticket_timestamp_cmp_function(ticket1, ticket2) == ticket1.ts > ticket2.ts

BoolAsInt(b) == IF b THEN 1 ELSE 0

\* K.__lt__ of functools.cmp_to_key: mycmp(self.obj, other.obj) < 0
KeyLessThan(a, b) == BoolAsInt(ticket_timestamp_cmp_function(a, b)) < 0

\* list.sort on a short list: binary insertion, each element put after the
\* elements it is not less than.  l and r count from 0.
RECURSIVE Bisect(_, _, _, _)
Bisect(s, pivot, l, r) ==
    IF l >= r THEN l
    ELSE LET p == l + ((r - l) \div 2)
         IN IF KeyLessThan(pivot, s[p + 1]) THEN Bisect(s, pivot, l, p)
                                            ELSE Bisect(s, pivot, p + 1, r)

RECURSIVE BinarySort(_, _)
BinarySort(s, i) ==
    IF i > Len(s) THEN s
    ELSE LET at == Bisect(s, s[i], 0, i - 1)
         IN BinarySort(SubSeq(s, 1, at) \o <<s[i]>> \o SubSeq(s, at + 1, i - 1)
                         \o SubSeq(s, i + 1, Len(s)), i + 1)

sort(s) == BinarySort(s, 2)

\* S3 lists the keys of a prefix in the order of their bytes: by ticket
\* name, then by the timestamp that follows it.
KeyBefore(a, b) == a.name < b.name \/ (a.name = b.name /\ a.ts < b.ts)

RECURSIVE list_objects(_)
list_objects(keys) ==
    IF keys = {} THEN <<>>
    ELSE LET first == CHOOSE k \in keys : \A o \in keys \ {k} : KeyBefore(k, o)
         IN <<first>> \o list_objects(keys \ {first})

\* ------------------------------------------------- calls that write to S3

\* One S3 write: put_object (no Body: the object is left empty), Object.put
\* (the body), delete_object.
PutEmpty(ns, key) == [op |-> "put_object", ns |-> ns, key |-> key, body |-> EmptyBody]
PutBody(ns, key, body) == [op |-> "put", ns |-> ns, key |-> key, body |-> body]
Delete(ns, key) == [op |-> "delete_object", ns |-> ns, key |-> key, body |-> EmptyBody]

\* An update_resource_pool that writes nothing.
update_resource_pool_nothing(ticket_key, instance_type, num_of_instances, job_type) == <<>>

\* An update_resource_pool that names the entry of a ticket that already
\* has one differently.
update_resource_pool_new_key(ticket_key, instance_type, num_of_instances, job_type) ==
    LET key == PoolKey(instance_type, job_type, Basename(ticket_key),
                       str(num_of_instances),
                       IF \E e \in DOMAIN resource_pool : e.name = Basename(ticket_key)
                       THEN "running" ELSE "preparing")
    IN  <<PutEmpty("resource_pool", key)>>

\* The writes of update_resource_pool, in the order the code makes them.
update_resource_pool(ticket_key, instance_type, num_of_instances, job_type) ==
    LET key == PoolKey(instance_type, job_type, Basename(ticket_key),
                       str(num_of_instances), "preparing")
        pool_ticket_content ==
            [REQUEST_TICKET_KEY |-> ticket_key, INSTANCE_TYPE |-> instance_type,
             INSTANCES_NUM |-> num_of_instances, STATUS |-> "preparing"]
    IN  <<PutEmpty("resource_pool", key), PutBody("resource_pool", key, pool_ticket_content)>>

delete_ticket(key) == <<Delete("request_tickets", key)>>

\* An admission that deletes the ticket before it writes the reservation.
schedule_delete_first(ticket_key, body) ==
    delete_ticket(ticket_key)
    \o update_resource_pool(ticket_key, assign_sagemaker_instance_type(body.ECR_URI),
                            body.INSTANCES_NUM, JobType(body.ECR_URI))

\* Lines 257-258: after the build has started, update_resource_pool and then
\* delete_ticket.
schedule(ticket_key, body) ==
    update_resource_pool(ticket_key, assign_sagemaker_instance_type(body.ECR_URI),
                         body.INSTANCES_NUM, JobType(body.ECR_URI))
    \o delete_ticket(ticket_key)

\* Whether constants.{name} can be read.
HasAttr(name) == name \in DOMAIN constants

\* The writes of update_ticket past the read of the retry maximum, in the
\* order the code makes them; t is datetime.now().
update_ticket(ticket_key, body, t) ==
    LET num_of_tries == body.SCHEDULING_TRIES
        request_time == body.TIMESTAMP
        timeout_limit == body.TIMEOUT_LIMIT
        dead(reason) == DeadLetterKey(Basename(ticket_key), reason)
    IN  IF num_of_tries >= constants["MAX_SCHEDULING_RETRIES"]
        THEN <<Delete("request_tickets", ticket_key),
               PutEmpty("dead_letter_queue", dead("maxRetries")),
               PutBody("dead_letter_queue", dead("maxRetries"), body)>>
        ELSE IF t - request_time > timeout_limit
        THEN <<Delete("request_tickets", ticket_key),
               PutEmpty("dead_letter_queue", dead("timeout")),
               PutBody("dead_letter_queue", dead("timeout"), body)>>
        ELSE <<PutEmpty("request_tickets", ticket_key),
               PutBody("request_tickets", ticket_key,
                       [body EXCEPT !.SCHEDULING_TRIES = num_of_tries + 1])>>

\* check_timeout exiting only after the limit is passed.
check_timeout_after_limit(start, t) == t - start > constants["TIMEOUT_LIMIT_SECONDS"]

\* check_timeout: whether the pass exits.
check_timeout(start, t) == t - start >= constants["TIMEOUT_LIMIT_SECONDS"]

\* The effect of one write on the objects of its folder.
Apply(w, objects) ==
    IF w.op = "delete_object"
    THEN [k \in DOMAIN objects \ {w.key} |-> objects[k]]
    ELSE [k \in DOMAIN objects \cup {w.key} |-> IF k = w.key THEN w.body ELSE objects[k]]

\* ---------------------------------------------------------- initial state

\* The resource classes of the images placed.
Classes == {<<assign_sagemaker_instance_type(i), JobType(i)>> : i \in Images}

Limit(class) ==
    IF class[2] = "training" THEN TRAINING_LIMIT[class[1]] ELSE INFERENCE_LIMIT[class[1]]

\* Entries earlier passes left in a class, using `used` instances: entries
\* of 9 instances and one of the rest, the first running, the others preparing.
OldEntries(class, used) ==
    {PoolKey(class[1], class[2], TicketKey(0 - i, 0),
             str(IF 9 * i <= used THEN 9 ELSE used - 9 * (i - 1)),
             IF i = 1 THEN "running" ELSE "preparing") : i \in 1..((used + 8) \div 9)}

\* The instances reserved in a class in the initial state: none, or all but
\* the headroom.
InitReserved(class) == {0} \cup {Limit(class) - h : h \in InitHeadroom}

MaxLimit == CHOOSE l \in {Limit(c) : c \in Classes} : \A c \in Classes : Limit(c) <= l

NoObjects == [k \in {} |-> EmptyBody]

Terminal == {"idle", "done", "exited", "aborted", "crashed"}

NoError == [exception |-> "none", line |-> 0]

\* The resource pool earlier passes left, the folder objects of the bucket,
\* an empty dead letter queue, no build of this run yet.
InitPool ==
    /\ \E used \in [Classes -> 0..MaxLimit] :
          /\ \A c \in Classes : used[c] \in InitReserved(c)
          /\ resource_pool =
              [k \in UNION {OldEntries(c, used[c]) : c \in Classes} |->
                  [REQUEST_TICKET_KEY |-> k.name, INSTANCE_TYPE |-> k.instance_type,
                   INSTANCES_NUM |-> int(k.num), STATUS |-> k.status]]
    /\ dead_letter_queue = NoObjects
    /\ folders \in {{}, {QueueFolder} \cup {PoolFolder(c[1], c[2]) : c \in Classes}}
    /\ builds = {}
    /\ now = StartNow

\* No invocation has started.
InitPasses ==
    /\ pc = [p \in Passes |-> "idle"]
    /\ start_time = [p \in Passes |-> 0]
    /\ tickets_list = [p \in Passes |-> <<>>]
    /\ idx = [p \in Passes |-> 0]
    /\ ticket_body = [p \in Passes |-> EmptyBody]
    /\ instances_in_use = [p \in Passes |-> 0]
    /\ todo = [p \in Passes |-> <<>>]
    /\ err = [p \in Passes |-> NoError]

Init ==
    /\ \E ts \in [1..MaxTickets -> 1..MaxTickets], image \in [1..MaxTickets -> Images],
          num \in [1..MaxTickets -> Counts], tries \in InitTries, timeout \in Timeouts :
          /\ \A i, j \in 1..MaxTickets : ts[i] = ts[j] => i = j
          /\ request_tickets =
                [k \in {TicketKey(i, ts[i]) : i \in 1..MaxTickets} |->
                    TicketBody(image[k.name], num[k.name], tries, k.ts, timeout)]
    /\ InitPool
    /\ InitPasses

\* ------------------------------------------------------------ lambda_handler

\* The pass ends with an uncaught exception, raised at a line of
\* lambda_function.py.
Raise(p, exception, line) ==
    /\ pc' = [pc EXCEPT ![p] = "aborted"]
    /\ err' = [err EXCEPT ![p] = [exception |-> exception, line |-> line]]

\* Lines 226-232: list the queue, keep the .json keys, sort.
StartPass(p) ==
    /\ pc[p] \in Terminal
    /\ start_time' = [start_time EXCEPT ![p] = now]
    /\ idx' = [idx EXCEPT ![p] = 1]
    /\ todo' = [todo EXCEPT ![p] = <<>>]
    /\ ticket_body' = [ticket_body EXCEPT ![p] = EmptyBody]
    /\ instances_in_use' = [instances_in_use EXCEPT ![p] = 0]
    /\ IF DOMAIN request_tickets = {} /\ QueueFolder \notin folders
       THEN /\ Raise(p, "KeyError", 231)
            /\ tickets_list' = [tickets_list EXCEPT ![p] = <<>>]
       ELSE /\ pc' = [pc EXCEPT ![p] = "loop"]
            /\ err' = [err EXCEPT ![p] = NoError]
            /\ tickets_list' =
                  [tickets_list EXCEPT ![p] = sort(list_objects(DOMAIN request_tickets))]
    /\ UNCHANGED <<store, builds, now>>

\* Lines 234-235: the next ticket of the list, after check_timeout.
NextTicket(p) ==
    /\ pc[p] = "loop"
    /\ pc' = [pc EXCEPT ![p] =
                IF idx[p] > Len(tickets_list[p]) THEN "done"
                ELSE IF check_timeout(start_time[p], now) THEN "exited"
                ELSE "read"]
    /\ UNCHANGED <<store, builds, now, start_time, tickets_list, idx, ticket_body,
                   instances_in_use, todo, err>>

\* The ticket the pass is handling.
ticket_key(p) == tickets_list[p][idx[p]]

\* Lines 236-254: read the ticket, count the instances in use, decide.
Evaluate(p) ==
    /\ pc[p] = "read"
    /\ IF ticket_key(p) \notin DOMAIN request_tickets
       THEN Raise(p, "NoSuchKey", 237) /\ UNCHANGED <<ticket_body, instances_in_use>>
       ELSE LET body == request_tickets[ticket_key(p)] IN
       IF body = EmptyBody
       THEN Raise(p, "JSONDecodeError", 238) /\ UNCHANGED <<ticket_body, instances_in_use>>
       ELSE LET image_uri == body.ECR_URI
                instance_type == assign_sagemaker_instance_type(image_uri)
                job_type == JobType(image_uri)
                in_use == get_num_instances_running(resource_pool, folders,
                                                    instance_type, job_type)
                instances_limit == check_sagemaker_instance_limit(image_uri)
            IN  /\ ticket_body' = [ticket_body EXCEPT ![p] = body]
                /\ IF "raise" \in DOMAIN in_use
                   THEN Raise(p, in_use.raise, in_use.line) /\ UNCHANGED instances_in_use
                   ELSE /\ instances_in_use' = [instances_in_use EXCEPT ![p] = in_use.value]
                        /\ IF "raise" \in DOMAIN instances_limit
                           THEN Raise(p, instances_limit.raise, 70)
                           ELSE IF ~(instances_limit.value >= in_use.value)
                           THEN Raise(p, "AssertionError", 249)
                           ELSE /\ pc' = [pc EXCEPT ![p] =
                                    Decide(body, in_use.value, instances_limit.value)]
                                /\ UNCHANGED err
    /\ UNCHANGED <<store, builds, now, start_time, tickets_list, idx, todo>>

\* Lines 256-262: trigger_build starts the Job Executor or reports that
\* CodeBuild refused; on success the reservation and the deletion follow.
Trigger(p) ==
    /\ pc[p] = "trigger"
    /\ \E started \in BOOLEAN :
          IF started
          THEN /\ builds' = builds \cup {ticket_key(p)}
               /\ pc' = [pc EXCEPT ![p] = "admit"]
               /\ todo' = [todo EXCEPT ![p] = schedule(ticket_key(p), ticket_body[p])]
          ELSE /\ pc' = [pc EXCEPT ![p] = "update_trigger_failed"]
               /\ UNCHANGED <<builds, todo>>
    /\ UNCHANGED <<store, now, start_time, tickets_list, idx, ticket_body,
                   instances_in_use, err>>

\* Lines 262 and 266, update_ticket up to line 171: the read of
\* constants.MAX_SCHEDULING_RETRIES, then the branch taken.
UpdateTicket(p) ==
    /\ pc[p] \in {"update_trigger_failed", "update_no_resources"}
    /\ IF ~HasAttr("MAX_SCHEDULING_RETRIES")
       THEN Raise(p, "AttributeError", 171) /\ UNCHANGED todo
       ELSE /\ pc' = [pc EXCEPT ![p] =
                     IF pc[p] = "update_trigger_failed"
                     THEN "writing_trigger_failed" ELSE "writing_no_resources"]
            /\ todo' = [todo EXCEPT ![p] = update_ticket(ticket_key(p), ticket_body[p], now)]
            /\ UNCHANGED err
    /\ UNCHANGED <<store, builds, now, start_time, tickets_list, idx, ticket_body,
                   instances_in_use>>

\* The next S3 write of update_resource_pool, delete_ticket or update_ticket;
\* after the last one the loop goes on.
Write(p) ==
    /\ pc[p] \in {"admit", "writing_trigger_failed", "writing_no_resources"}
    /\ todo[p] # <<>>
    /\ LET w == Head(todo[p]) IN
          /\ request_tickets' =
                IF w.ns = "request_tickets" THEN Apply(w, request_tickets) ELSE request_tickets
          /\ resource_pool' =
                IF w.ns = "resource_pool" THEN Apply(w, resource_pool) ELSE resource_pool
          /\ dead_letter_queue' =
                IF w.ns = "dead_letter_queue" THEN Apply(w, dead_letter_queue)
                ELSE dead_letter_queue
    /\ todo' = [todo EXCEPT ![p] = Tail(todo[p])]
    /\ IF Len(todo[p]) = 1
       THEN /\ pc' = [pc EXCEPT ![p] = "loop"]
            /\ idx' = [idx EXCEPT ![p] = idx[p] + 1]
       ELSE UNCHANGED <<pc, idx>>
    /\ UNCHANGED <<folders, builds, now, start_time, tickets_list, ticket_body,
                   instances_in_use, err>>

\* The invocation dies where it stands (the Lambda is killed).
Crash(p) ==
    /\ pc[p] \notin Terminal
    /\ pc' = [pc EXCEPT ![p] = "crashed"]
    /\ UNCHANGED <<store, builds, now, start_time, tickets_list, idx, ticket_body,
                   instances_in_use, todo, err>>

\* Time passes; the passes in P see it where they read the clock next.
Tick(P) ==
    /\ now + ClockStep <= MaxNow
    /\ \E p \in P : pc[p] \in Terminal \cup {"loop", "update_trigger_failed", "update_no_resources"}
    /\ now' = now + ClockStep
    /\ UNCHANGED <<store, builds, locals>>

Step(p) ==
    \/ StartPass(p)
    \/ NextTicket(p)
    \/ Evaluate(p)
    \/ Trigger(p)
    \/ UpdateTicket(p)
    \/ Write(p)

\* One scheduler, invoked again and again.
Next == Step(1) \/ Tick({1})

Spec == Init /\ [][Next]_vars

\* The scheduler is invoked again and again and every invocation runs on:
\* a step of the pass that can be taken is taken.
SpecFair == Init /\ [][Next]_vars /\ WF_vars(Step(1))

\* pr-tensorflow:...-gpu-..., an image URI with neither "training" nor
\* "inference" in it.
ImageWithoutJobType == Image(TRUE, TRUE, FALSE, FALSE)

\* A queue in which one ticket is faulty, with a body that is not JSON or
\* with an image of no job type, and the other tickets are sound.
InitBadTicket ==
    /\ \E bad \in 1..MaxTickets, image \in [1..MaxTickets -> Images],
          num \in [1..MaxTickets -> Counts],
          faulty \in {EmptyBody,
                      TicketBody(ImageWithoutJobType, 1, MAX_SCHEDULING_TRIES - 1, 1, 14400)} :
          request_tickets =
              [k \in {TicketKey(i, i) : i \in 1..MaxTickets} |->
                  IF k.name = bad THEN faulty
                  ELSE TicketBody(image[k.name], num[k.name], MAX_SCHEDULING_TRIES - 1,
                                  k.ts, 14400)]
    /\ InitPool
    /\ InitPasses

\* One scheduler on a queue that holds a faulty ticket.
SpecBadTicket == InitBadTicket /\ [][Next]_vars

\* The instances reserved in a class when two invocations overlap: three
\* below the limit, the room for one ticket of two instances and not for two.
ConcurrentReserved(class) == Limit(class) - 3

\* A queue of sound tickets, the ticket of the first name not placed yet,
\* each class with ConcurrentReserved instances reserved, the folder objects
\* in place.
InitConcurrent ==
    /\ \E image \in [2..MaxTickets -> Images], num \in [2..MaxTickets -> Counts] :
          request_tickets =
              [k \in {TicketKey(i, i) : i \in 2..MaxTickets} |->
                  TicketBody(image[k.name], num[k.name], MAX_SCHEDULING_TRIES - 1,
                             k.ts, 14400)]
    /\ resource_pool =
          [k \in UNION {OldEntries(c, ConcurrentReserved(c)) : c \in Classes} |->
              [REQUEST_TICKET_KEY |-> k.name, INSTANCE_TYPE |-> k.instance_type,
               INSTANCES_NUM |-> int(k.num), STATUS |-> k.status]]
    /\ dead_letter_queue = NoObjects
    /\ folders = {QueueFolder} \cup {PoolFolder(c[1], c[2]) : c \in Classes}
    /\ builds = {}
    /\ now = StartNow
    /\ InitPasses

\* A client places the ticket of the first name on the request queue, as
\* the tests do before they call the scheduler.
PlaceTicket ==
    /\ \A k \in DOMAIN request_tickets \cup builds : k.name # 1
    /\ \E image \in Images, num \in Counts :
          request_tickets' =
              request_tickets @@
                 (TicketKey(1, StartNow) :>
                     TicketBody(image, num, 0, StartNow, 14400))
    /\ UNCHANGED <<resource_pool, dead_letter_queue, folders, builds, now, locals>>

\* Two invocations of the scheduler alive at once on the same bucket, their
\* S3 calls interleaved, and a client of the queue; nothing in the code
\* locks the bucket.
NextConcurrent == Step(1) \/ Step(2) \/ PlaceTicket

SpecConcurrent == InitConcurrent /\ [][NextConcurrent]_vars

\* The number part of a resource-pool key that the pattern of line 92 does
\* not match: no digit ("name#-preparing.json"), or two digits.
MalformedNums == {<<>>, <<1, 0>>}

\* A queue of sound tickets and a resource pool in which one class holds,
\* beside its sound entries, an entry preparing or running with a malformed
\* number.
InitMalformedEntry ==
    /\ \E image \in [1..MaxTickets -> Images], num \in [1..MaxTickets -> Counts] :
          request_tickets =
              [k \in {TicketKey(i, i) : i \in 1..MaxTickets} |->
                  TicketBody(image[k.name], num[k.name], MAX_SCHEDULING_TRIES - 1,
                             k.ts, 14400)]
    /\ \E used \in [Classes -> 0..MaxLimit], c \in Classes, n \in MalformedNums,
          status \in {"preparing", "running"} :
          /\ \A d \in Classes : used[d] \in InitReserved(d)
          /\ resource_pool =
              [k \in UNION {OldEntries(d, used[d]) : d \in Classes} |->
                  [REQUEST_TICKET_KEY |-> k.name, INSTANCE_TYPE |-> k.instance_type,
                   INSTANCES_NUM |-> int(k.num), STATUS |-> k.status]]
              @@ (PoolKey(c[1], c[2], TicketKey(0, 0), n, status) :> EmptyBody)
    /\ dead_letter_queue = NoObjects
    /\ folders = {QueueFolder} \cup {PoolFolder(c[1], c[2]) : c \in Classes}
    /\ builds = {}
    /\ now = StartNow
    /\ InitPasses

\* One scheduler on a resource pool that holds a malformed entry.
SpecMalformedEntry == InitMalformedEntry /\ [][Next]_vars

\* INSTANCES_NUM of tickets that ask for many instances: the largest number
\* of one digit and the smallest of two.
LargeCounts == {9, 10}

\* A queue of sound tickets that ask for many instances.
InitLargeCount ==
    /\ \E image \in [1..MaxTickets -> Images], num \in [1..MaxTickets -> LargeCounts] :
          request_tickets =
              [k \in {TicketKey(i, i) : i \in 1..MaxTickets} |->
                  TicketBody(image[k.name], num[k.name], MAX_SCHEDULING_TRIES - 1,
                             k.ts, 14400)]
    /\ InitPool
    /\ InitPasses

\* One scheduler on a queue of tickets that ask for many instances.
SpecLargeCount == InitLargeCount /\ [][Next]_vars

\* One scheduler that may die at any step, with the clock standing still.
NextCrash == Step(1) \/ Crash(1)

SpecCrash == Init /\ [][NextCrash]_vars

\* ------------------------------------------------------------------ claims

\* The resource class of a ticket body.
ClassOf(body) == <<assign_sagemaker_instance_type(body.ECR_URI), JobType(body.ECR_URI)>>

\* The instances reserved in a class: the numbers in the keys of its entries
\* with status preparing or running.
RECURSIVE SumOfNums(_)
SumOfNums(S) ==
    IF S = {} THEN 0
    ELSE LET k == CHOOSE x \in S : TRUE IN int(k.num) + SumOfNums(S \ {k})

Reserved(pool, class) ==
    SumOfNums({k \in DOMAIN pool : /\ <<k.instance_type, k.job_type>> = class
                                   /\ k.status \in {"preparing", "running"}})

\* The resource-pool entries written for a ticket.
EntriesOf(pool, key) == {k \in DOMAIN pool : k.name = key}

\* The dead-letter records written for a ticket.
DeadLettersOf(dlq, key) == {k \in DOMAIN dlq : k.name = key}

\* C1: with one scheduler and no other writer, the instances reserved
\* (preparing or running) in a resource class never exceed the limit of the
\* class, and the number in use read for a ticket is the number reserved at
\* that moment, reservations made earlier in the same pass included.
C1_ReservedWithinLimit ==
    /\ \A c \in Classes : Reserved(resource_pool, c) <= Limit(c)
    /\ pc[1] \in {"trigger", "update_no_resources", "update_trigger_failed"} =>
          instances_in_use[1] = Reserved(resource_pool, ClassOf(ticket_body[1]))

\* A ticket is refused at the limit because of a reservation the same pass
\* made for an earlier ticket of the class.
C1_Witness ==
    /\ pc[1] = "update_no_resources"
    /\ idx[1] > 1
    /\ \E e \in EntriesOf(resource_pool, tickets_list[1][idx[1] - 1]) :
          /\ <<e.instance_type, e.job_type>> = ClassOf(ticket_body[1])
          /\ instances_in_use[1] - int(e.num) + ticket_body[1].INSTANCES_NUM
                < Limit(ClassOf(ticket_body[1]))
    /\ instances_in_use[1] + ticket_body[1].INSTANCES_NUM = Limit(ClassOf(ticket_body[1]))

\* C2: a ticket goes to the trigger exactly when the instances reserved in
\* its class plus the instances it asks for are below the limit; at or
\* above the limit (the sum equal to the limit included) it goes to
\* update_ticket, and from the evaluation to the end of update_ticket no
\* build is started and the resource pool is not written.
C2_AdmittedIffBelowLimit ==
    [][/\ (pc[1] = "read" /\ pc'[1] # "aborted") =>
            LET b == request_tickets[ticket_key(1)]
                u == Reserved(resource_pool, ClassOf(b))
                l == Limit(ClassOf(b))
            IN  /\ (pc'[1] = "trigger") <=> (u + b.INSTANCES_NUM < l)
                /\ (pc'[1] = "update_no_resources") <=> (u + b.INSTANCES_NUM >= l)
                /\ builds' = builds
                /\ resource_pool' = resource_pool
       /\ pc[1] \in {"update_no_resources", "writing_no_resources"} =>
            (builds' = builds /\ resource_pool' = resource_pool)]_vars

\* A ticket whose request brings its class exactly to the limit has been
\* handed to update_ticket, and no build was started for it.
C2_Witness ==
    /\ pc[1] = "update_no_resources"
    /\ Reserved(resource_pool, ClassOf(ticket_body[1])) + ticket_body[1].INSTANCES_NUM
          = Limit(ClassOf(ticket_body[1]))
    /\ ticket_key(1) \notin builds
    /\ EntriesOf(resource_pool, ticket_key(1)) = {}

\* C3: a pass evaluates the tickets in ascending order of the timestamps in
\* their keys: no ticket still to be evaluated is older than the one being
\* evaluated.
C3_EvaluatedInTimestampOrder ==
    pc[1] = "read" =>
        \A j \in (idx[1] + 1)..Len(tickets_list[1]) :
            tickets_list[1][j].ts > tickets_list[1][idx[1]].ts

\* Where lambda_handler stands while a call of update_ticket runs.
InUpdateTicket == {"update_no_resources", "update_trigger_failed",
                   "writing_no_resources", "writing_trigger_failed"}

\* The step that ends the call of update_ticket for the ticket in hand.
UpdateTicketEnds == pc[1] \in InUpdateTicket /\ pc'[1] \notin InUpdateTicket

\* C4: when update_ticket ends for a ticket refused with SCHEDULING_TRIES at
\* or above the maximum of 5, the ticket is off the request queue and its
\* dead-letter record with the suffix maxRetries is written.
C4_MaxRetriesDeadLettered ==
    [][(UpdateTicketEnds /\ ticket_body[1].SCHEDULING_TRIES >= MAX_SCHEDULING_TRIES) =>
          /\ ticket_key(1) \notin DOMAIN request_tickets'
          /\ DeadLetterKey(Basename(ticket_key(1)), "maxRetries") \in DOMAIN dead_letter_queue'
      ]_vars

\* C5: when update_ticket ends for a ticket refused with SCHEDULING_TRIES
\* below the maximum and older than its TIMEOUT_LIMIT, the ticket is off the
\* request queue and its dead-letter record with the suffix timeout is written.
C5_TimeoutDeadLettered ==
    [][(/\ UpdateTicketEnds
        /\ ticket_body[1].SCHEDULING_TRIES < MAX_SCHEDULING_TRIES
        /\ now - ticket_body[1].TIMESTAMP > ticket_body[1].TIMEOUT_LIMIT) =>
          /\ ticket_key(1) \notin DOMAIN request_tickets'
          /\ DeadLetterKey(Basename(ticket_key(1)), "timeout") \in DOMAIN dead_letter_queue'
      ]_vars

\* C6: when update_ticket ends for a ticket refused with SCHEDULING_TRIES
\* below the maximum and not older than its TIMEOUT_LIMIT, the ticket is on
\* the request queue under its key with SCHEDULING_TRIES one higher and the
\* rest of its body as it was; and no step lowers the SCHEDULING_TRIES of a
\* ticket on the queue.
C6_RequeuedWithOneMoreTry ==
    [][/\ (/\ UpdateTicketEnds
           /\ ticket_body[1].SCHEDULING_TRIES < MAX_SCHEDULING_TRIES
           /\ now - ticket_body[1].TIMESTAMP <= ticket_body[1].TIMEOUT_LIMIT) =>
             /\ ticket_key(1) \in DOMAIN request_tickets'
             /\ request_tickets'[ticket_key(1)] =
                   [ticket_body[1] EXCEPT !.SCHEDULING_TRIES = @ + 1]
       /\ \A k \in DOMAIN request_tickets \cap DOMAIN request_tickets' :
             (request_tickets[k] # EmptyBody /\ request_tickets'[k] # EmptyBody) =>
                request_tickets'[k].SCHEDULING_TRIES >= request_tickets[k].SCHEDULING_TRIES
      ]_vars

\* The tickets the pass listed when it started.
Listed == {tickets_list[1][i] : i \in 1..Len(tickets_list[1])}

C8_EveryTicketAccounted ==
    pc[1] \in {"done", "exited"} =>
        LET queued == Listed \cap DOMAIN request_tickets
            pooled == {e \in DOMAIN resource_pool : e.name \in Listed}
            dead == {d \in DOMAIN dead_letter_queue : d.name \in Listed}
        IN  /\ \A k \in Listed :
                  BoolAsInt(k \in queued) + Cardinality(EntriesOf(resource_pool, k))
                      + Cardinality(DeadLettersOf(dead_letter_queue, k)) = 1
            /\ Cardinality(queued) + Cardinality(pooled) + Cardinality(dead)
                  = Len(tickets_list[1])

\* A pass left by check_timeout after it scheduled a ticket: one listed
\* ticket is in the resource pool, another still on the queue.
C8_Witness ==
    /\ pc[1] = "exited"
    /\ \E k \in Listed : k \notin DOMAIN request_tickets /\ EntriesOf(resource_pool, k) # {}
    /\ \E k \in Listed : k \in DOMAIN request_tickets /\ EntriesOf(resource_pool, k) = {}

\* C9: when trigger_build fails, nothing is written and update_ticket is
\* called; the call writes no resource-pool entry, and when it ends the
\* ticket is on the queue with one more try or off the queue with a
\* dead-letter record.
C9_TriggerFailureRequeuedOrDead ==
    [][/\ (pc[1] = "trigger" /\ builds' = builds) =>
             /\ pc'[1] = "update_trigger_failed"
             /\ UNCHANGED store
       /\ pc[1] \in {"update_trigger_failed", "writing_trigger_failed"} =>
             resource_pool' = resource_pool
       /\ (/\ pc[1] \in {"update_trigger_failed", "writing_trigger_failed"}
           /\ pc'[1] \notin InUpdateTicket) =>
             \/ /\ ticket_key(1) \in DOMAIN request_tickets'
                /\ request_tickets'[ticket_key(1)] =
                      [ticket_body[1] EXCEPT !.SCHEDULING_TRIES = @ + 1]
             \/ /\ ticket_key(1) \notin DOMAIN request_tickets'
                /\ DeadLettersOf(dead_letter_queue', Basename(ticket_key(1))) # {}
      ]_vars

\* C10: a ticket with SCHEDULING_TRIES at or above the maximum goes to the
\* trigger when its class has room; an accepted build leads to the
\* reservation and the deletion whatever the tries; when the admission ends
\* the ticket is off the queue, its entry is in the resource pool and it has
\* no dead-letter record; and the dead letter queue is written only inside
\* update_ticket.
C10_MaxTriesStillAdmitted ==
    [][/\ (/\ pc[1] = "read" /\ pc'[1] # "aborted"
           /\ request_tickets[ticket_key(1)].SCHEDULING_TRIES >= MAX_SCHEDULING_TRIES
           /\ Reserved(resource_pool, ClassOf(request_tickets[ticket_key(1)]))
                 + request_tickets[ticket_key(1)].INSTANCES_NUM
                 < Limit(ClassOf(request_tickets[ticket_key(1)]))) =>
             pc'[1] = "trigger"
       /\ (pc[1] = "trigger" /\ builds' # builds) => pc'[1] = "admit"
       /\ (pc[1] = "admit" /\ pc'[1] = "loop") =>
             /\ ticket_key(1) \notin DOMAIN request_tickets'
             /\ PoolKey(ClassOf(ticket_body[1])[1], ClassOf(ticket_body[1])[2],
                        Basename(ticket_key(1)), str(ticket_body[1].INSTANCES_NUM),
                        "preparing") \in DOMAIN resource_pool'
             /\ DeadLettersOf(dead_letter_queue', Basename(ticket_key(1))) = {}
       /\ dead_letter_queue' # dead_letter_queue => pc[1] \in InUpdateTicket
      ]_vars

\* A ticket with SCHEDULING_TRIES at the maximum has been scheduled: its
\* build is started, its entry reserved, and it is off the queue.
C10_Witness ==
    /\ pc[1] = "loop"
    /\ idx[1] > 1
    /\ ticket_body[1] # EmptyBody
    /\ ticket_body[1].SCHEDULING_TRIES >= MAX_SCHEDULING_TRIES
    /\ tickets_list[1][idx[1] - 1] \in builds
    /\ tickets_list[1][idx[1] - 1] \notin DOMAIN request_tickets
    /\ EntriesOf(resource_pool, tickets_list[1][idx[1] - 1]) # {}

\* The tickets of the list the pass has not reached yet.
NotYetVisited(p) ==
    {tickets_list[p][j] : j \in (IF pc[p] = "loop" THEN idx[p] ELSE idx[p] + 1)
                                    ..Len(tickets_list[p])}

\* C11: a ticket is read only after check_timeout found the elapsed time of
\* the pass below TIMEOUT_LIMIT_SECONDS; when the elapsed time has reached it
\* at the head of the loop the pass exits and does nothing more, the exit
\* changes nothing in the three folders nor in the builds started (nothing is
\* rolled back), and no step of the pass changes a ticket it has not reached
\* yet (same key, same body, same SCHEDULING_TRIES).
C11_BudgetCheckedBeforeEachTicket ==
    [][/\ pc'[1] = "read" =>
             /\ pc[1] = "loop"
             /\ now - start_time[1] < TIMEOUT_LIMIT_SECONDS
       /\ (/\ pc[1] = "loop" /\ idx[1] <= Len(tickets_list[1])
           /\ now - start_time[1] >= TIMEOUT_LIMIT_SECONDS /\ now' = now) =>
             /\ pc'[1] = "exited"
             /\ UNCHANGED <<store, builds>>
       /\ (pc[1] = "exited" /\ pc'[1] = "exited") => UNCHANGED <<store, builds>>
       /\ pc[1] \notin Terminal =>
             \A k \in NotYetVisited(1) \cap DOMAIN request_tickets :
                /\ k \in DOMAIN request_tickets'
                /\ request_tickets'[k] = request_tickets[k]
      ]_vars

\* The pass has exited at the budget after it scheduled a ticket: the
\* reservation of the earlier ticket stands, and the ticket it was about to
\* visit is on the queue without a build.
C11_Witness ==
    /\ pc[1] = "exited"
    /\ now - start_time[1] >= TIMEOUT_LIMIT_SECONDS
    /\ idx[1] > 1
    /\ tickets_list[1][idx[1] - 1] \in builds
    /\ EntriesOf(resource_pool, tickets_list[1][idx[1] - 1]) # {}
    /\ ticket_key(1) \in DOMAIN request_tickets
    /\ request_tickets[ticket_key(1)] # EmptyBody
    /\ ticket_key(1) \notin builds

\* C12: when update_ticket ends for a ticket refused with SCHEDULING_TRIES at
\* or above the maximum and also older than its TIMEOUT_LIMIT, its dead-letter
\* record carries the suffix maxRetries and no record with the suffix timeout
\* is written for it.
C12_MaxRetriesBeforeTimeout ==
    [][(/\ UpdateTicketEnds
        /\ ticket_body[1].SCHEDULING_TRIES >= MAX_SCHEDULING_TRIES
        /\ now - ticket_body[1].TIMESTAMP > ticket_body[1].TIMEOUT_LIMIT) =>
          DeadLettersOf(dead_letter_queue', Basename(ticket_key(1)))
             = {DeadLetterKey(Basename(ticket_key(1)), "maxRetries")}
      ]_vars

\* C13: under repeated passes every ticket on the request queue eventually
\* leaves it, with a build started for it or with a dead-letter record.
C13_EveryTicketLeavesTheQueue ==
    \A i \in 1..MaxTickets, t \in 1..MaxTickets :
        (TicketKey(i, t) \in DOMAIN request_tickets)
           ~> (/\ TicketKey(i, t) \notin DOMAIN request_tickets
               /\ \/ TicketKey(i, t) \in builds
                  \/ DeadLettersOf(dead_letter_queue, Basename(TicketKey(i, t))) # {})

\* C14: the end of update_ticket for a refused ticket never ends the pass:
\* the pass is back at the head of the loop with the next ticket of the list
\* in hand, so that a later ticket of a class with room is still evaluated
\* and scheduled in the same pass.
C14_RejectionDoesNotEndThePass ==
    [][UpdateTicketEnds => (pc'[1] = "loop" /\ idx'[1] = idx[1] + 1)]_vars

\* C15: the evaluation of a ticket whose object cannot be read, whose body is
\* not JSON, or whose image URI holds neither "training" nor "inference"
\* does not end the pass.
C15_TicketErrorDoesNotAbortThePass ==
    [][(/\ pc[1] = "read"
        /\ \/ ticket_key(1) \notin DOMAIN request_tickets
           \/ request_tickets[ticket_key(1)] = EmptyBody
           \/ ~(request_tickets[ticket_key(1)].ECR_URI.training
                  \/ request_tickets[ticket_key(1)].ECR_URI.inference)) =>
          pc'[1] # "aborted"
      ]_vars

\* C16: when the admission of a ticket asking for n instances ends, the
\* ticket is off the request queue and the resource pool holds exactly one
\* entry for it, in the folder of its instance type and job type, with the
\* number n in its key, the status preparing, and a body naming the ticket
\* key; and a ticket whose class has no entry in the resource pool yet (0
\* instances in use) is sent to the trigger.
C16_AdmissionWritesOneEntry ==
    [][/\ (pc[1] = "admit" /\ pc'[1] = "loop") =>
             LET class == ClassOf(ticket_body[1])
                 n == ticket_body[1].INSTANCES_NUM
                 entry == PoolKey(class[1], class[2], Basename(ticket_key(1)), str(n),
                                  "preparing")
             IN  /\ ticket_key(1) \notin DOMAIN request_tickets'
                 /\ EntriesOf(resource_pool', Basename(ticket_key(1))) = {entry}
                 /\ resource_pool'[entry] =
                       [REQUEST_TICKET_KEY |-> ticket_key(1), INSTANCE_TYPE |-> class[1],
                        INSTANCES_NUM |-> n, STATUS |-> "preparing"]
                 /\ DOMAIN resource_pool' \ {entry} = DOMAIN resource_pool \ {entry}
       /\ (/\ pc[1] = "read"
           /\ ticket_key(1) \in DOMAIN request_tickets
           /\ request_tickets[ticket_key(1)] # EmptyBody
           /\ PoolEntries(resource_pool, ClassOf(request_tickets[ticket_key(1)])[1],
                          ClassOf(request_tickets[ticket_key(1)])[2]) = {}) =>
             pc'[1] = "trigger"
      ]_vars

\* C17: with two invocations interleaved, the instances reserved in a class
\* can reach and pass its limit; a reservation brings a class to its limit
\* or beyond only when the number in use the writing pass read is stale (no
\* longer the number reserved when it writes), and as long as a single
\* invocation has run every class stays below its limit.
C17_OverAdmissionOnlyByStaleRead ==
    [][/\ \A p \in Passes :
             (/\ pc[p] = "admit" /\ todo'[p] # todo[p]
              /\ Reserved(resource_pool', ClassOf(ticket_body[p]))
                    # Reserved(resource_pool, ClassOf(ticket_body[p]))
              /\ Reserved(resource_pool', ClassOf(ticket_body[p]))
                    >= Limit(ClassOf(ticket_body[p]))) =>
                instances_in_use[p] < Reserved(resource_pool, ClassOf(ticket_body[p]))
       /\ pc'[2] = "idle" =>
             \A c \in Classes : Reserved(resource_pool', c) < Limit(c)
      ]_vars

\* Two invocations have each scheduled a ticket of the same class on the
\* same reading, and the class holds more instances than its limit.
C17_Witness ==
    /\ \E c \in Classes : Reserved(resource_pool, c) > Limit(c)
    /\ \A p \in Passes : /\ pc[p] = "loop"
                         /\ ticket_body[p] # EmptyBody
                         /\ tickets_list[p][idx[p] - 1] \in builds
    /\ instances_in_use[1] = instances_in_use[2]
    /\ ClassOf(ticket_body[1]) = ClassOf(ticket_body[2])
    /\ tickets_list[1][idx[1] - 1] # tickets_list[2][idx[2] - 1]

\* C18: when update_ticket ends for a refused ticket that is exhausted
\* (SCHEDULING_TRIES at or above the maximum, or older than its
\* TIMEOUT_LIMIT), the dead letter queue holds exactly one record for it,
\* under a key with the reason, whose body is the body of the ticket with
\* SCHEDULING_TRIES as it was; and no step changes or deletes a dead-letter
\* record once its body is written.
C18_DeadLetterWrittenOnce ==
    [][/\ (/\ UpdateTicketEnds
           /\ \/ ticket_body[1].SCHEDULING_TRIES >= MAX_SCHEDULING_TRIES
              \/ now - ticket_body[1].TIMESTAMP > ticket_body[1].TIMEOUT_LIMIT) =>
             \E reason \in {"maxRetries", "timeout"} :
                /\ DeadLettersOf(dead_letter_queue', Basename(ticket_key(1)))
                      = {DeadLetterKey(Basename(ticket_key(1)), reason)}
                /\ dead_letter_queue'[DeadLetterKey(Basename(ticket_key(1)), reason)]
                      = ticket_body[1]
       /\ \A k \in DOMAIN dead_letter_queue :
             dead_letter_queue[k] # EmptyBody =>
                (k \in DOMAIN dead_letter_queue' /\ dead_letter_queue'[k] = dead_letter_queue[k])
      ]_vars

\* C19: a resource-pool entry is written only for a ticket whose build has
\* started, a ticket is taken off the queue only when its build has started
\* and its reservation is written with its body, and in every state, after a
\* kill of the invocation at any step included, a ticket with a build that
\* is off the queue has its entry in the resource pool.
C19_TriggerReserveDelete ==
    [][/\ \A e \in DOMAIN resource_pool' \ DOMAIN resource_pool : e.name \in builds
       /\ \A k \in DOMAIN request_tickets \ DOMAIN request_tickets' :
             /\ k \in builds
             /\ \E e \in EntriesOf(resource_pool, k) : resource_pool[e] # EmptyBody
       /\ \A k \in builds' :
             k \notin DOMAIN request_tickets' => EntriesOf(resource_pool', k) # {}
      ]_vars

\* The invocation was killed between the reservation and the deletion: the
\* ticket is still on the queue, its build started and its entry written.
C19_Witness ==
    /\ pc[1] = "crashed"
    /\ Len(todo[1]) = 1
    /\ ticket_key(1) \in builds
    /\ ticket_key(1) \in DOMAIN request_tickets
    /\ \E e \in EntriesOf(resource_pool, ticket_key(1)) : resource_pool[e] # EmptyBody

\* C20: when the class of the ticket being evaluated holds an entry preparing
\* or running whose key carries no number the pattern matches, the
\* evaluation does not end the pass, and the number in use it reads is the
\* sum of the numbers of the other entries preparing or running.
C20_MalformedEntrySkipped ==
    [][(/\ pc[1] = "read"
        /\ ticket_key(1) \in DOMAIN request_tickets
        /\ request_tickets[ticket_key(1)] # EmptyBody
        /\ \E k \in PoolEntries(resource_pool,
                                ClassOf(request_tickets[ticket_key(1)])[1],
                                ClassOf(request_tickets[ticket_key(1)])[2]) :
              CountsAsInUse(k) /\ re_match(k) = NoMatch) =>
          /\ pc'[1] # "aborted"
          /\ instances_in_use'[1] =
                SumOfMatches({k \in PoolEntries(resource_pool,
                                        ClassOf(request_tickets[ticket_key(1)])[1],
                                        ClassOf(request_tickets[ticket_key(1)])[2]) :
                                 CountsAsInUse(k) /\ re_match(k) # NoMatch})
      ]_vars

\* C21: an invocation that starts while the request queue holds no ticket
\* does not end with an exception: it lists nothing, leaves the loop at once
\* and returns, and neither step changes the request queue, the resource
\* pool, the dead letter queue or the builds started.
C21_EmptyQueuePassCompletes ==
    [][/\ (pc[1] \in Terminal /\ now' = now /\ DOMAIN request_tickets = {}) =>
             /\ pc'[1] = "loop"
             /\ tickets_list'[1] = <<>>
             /\ UNCHANGED <<store, builds>>
       /\ (pc[1] = "loop" /\ tickets_list[1] = <<>> /\ now' = now) =>
             /\ pc'[1] = "done"
             /\ UNCHANGED <<store, builds>>
      ]_vars

\* C22: a resource-pool entry the scheduler wrote for a ticket of n
\* instances, read back alone by get_num_instances_running, counts n in the
\* instances in use of its class.
C22_CountRoundTrip ==
    \A e \in DOMAIN resource_pool :
        (e.name \in builds /\ resource_pool[e] # EmptyBody) =>
            get_num_instances_running([k \in {e} |-> resource_pool[e]], folders,
                                      e.instance_type, e.job_type)
               = [value |-> resource_pool[e].INSTANCES_NUM]

\* C23: the resource pool never holds two entries for one ticket the
\* scheduler started a build for, and the admission of a ticket that
\* already has its entry (left on the queue by a kill between the
\* reservation and the deletion) writes under the same key: the set of
\* entries and the instances reserved in the class stay as they were.
C23_OneEntryPerTicket ==
    [][/\ \A e, f \in DOMAIN resource_pool' :
             (e.name \in builds' /\ e.name = f.name) => e = f
       /\ (pc[1] = "admit" /\ EntriesOf(resource_pool, Basename(ticket_key(1))) # {}) =>
             /\ DOMAIN resource_pool' = DOMAIN resource_pool
             /\ Reserved(resource_pool', ClassOf(ticket_body[1]))
                   = Reserved(resource_pool, ClassOf(ticket_body[1]))
      ]_vars

\* A ticket left on the queue with its reservation by a killed invocation
\* has been scheduled again by a later one, which is about to write the
\* reservation.
C23_Witness ==
    /\ pc[1] = "admit"
    /\ Len(todo[1]) = 3
    /\ ticket_key(1) \in DOMAIN request_tickets
    /\ \E e \in EntriesOf(resource_pool, Basename(ticket_key(1))) :
          resource_pool[e] # EmptyBody

====
